---- MODULE Spec2Model ----
(***************************************************************************)
(* Model of src/parser/parse.py: the 23andMe TSV to TOML converter.        *)
(*                                                                         *)
(* Text is a sequence of characters, a character is a one-character        *)
(* string.  Two characters outside ASCII are written by name: "sup2" is    *)
(* U+00B2 (SUPERSCRIPT TWO: str.isdigit() is true, int() rejects it) and   *)
(* "ar3" is U+0663 (ARABIC-INDIC DIGIT THREE: a decimal digit, int() reads *)
(* it as 3).  The SHA-256 digest of a buffer is the one-element text       *)
(* <<"sha256hex">>: 64 characters of 0-9a-f, none of which the output      *)
(* validator looks for.                                                    *)
(***************************************************************************)
EXTENDS Integers, Sequences, FiniteSets, TLC

VARIABLES
    input_exists,   \* os.path.exists(input_file)
    lines,          \* file.readlines() of the input file
    max_markers,    \* the cap given to parse_23andme_file
    pc,             \* where the run is
    data_start,     \* parse_23andme_file: index (from 0) of the header line
    row,            \* parse_23andme_file: index (from 0) into lines of the next data line
    markers,        \* the marker list
    processed_count,
    skipped_count,
    outcomes,       \* history: what each loop iteration did with its line
    error,          \* message of the exception raised, "" when none
    metrics,        \* result of calculate_quality_metrics in write_toml_file
    metrics_calls,  \* history: calls of calculate_quality_metrics
    hash_calls,     \* history: calls of generate_challenge_hash
    data_string,    \* generate_challenge_hash: the buffer that is digested
    out_opened,     \* the output file was opened for writing
    content,        \* text of the output file
    validate_ok,    \* result of validate_toml_output: "none", "True", "False"
    exit_code,      \* process exit code, -1 while running
    qm,             \* calculate_quality_metrics: loop state (markers, index, counters)
    hs              \* generate_challenge_hash on a sequence and on a variant of it

vars == <<input_exists, lines, max_markers, pc, data_start, row, markers,
          processed_count, skipped_count, outcomes, error, metrics,
          metrics_calls, hash_calls, data_string, out_opened, content,
          validate_ok, exit_code, qm, hs>>

-----------------------------------------------------------------------------
(* Python's str and int operations, as the code uses them                   *)

Whitespace == {" ", "\t", "\n", "\r"}

RECURSIVE LStrip(_)
LStrip(s) == IF s # <<>> /\ Head(s) \in Whitespace THEN LStrip(Tail(s)) ELSE s

RECURSIVE RStrip(_)
RStrip(s) ==
    IF s # <<>> /\ s[Len(s)] \in Whitespace
    THEN RStrip(SubSeq(s, 1, Len(s) - 1))
    ELSE s

\* str.strip()
Strip(s) == RStrip(LStrip(s))

\* str.startswith(p)
StartsWith(s, p) == Len(s) >= Len(p) /\ SubSeq(s, 1, Len(p)) = p

\* str.split(sep) for a one-character separator
RECURSIVE Split(_, _)
Split(s, sep) ==
    IF \E i \in 1..Len(s) : s[i] = sep
    THEN LET i == CHOOSE k \in 1..Len(s) :
                      s[k] = sep /\ \A j \in 1..(k - 1) : s[j] # sep
         IN  <<SubSeq(s, 1, i - 1)>> \o Split(SubSeq(s, i + 1, Len(s)), sep)
    ELSE <<s>>

\* needle in hay
Contains(hay, needle) ==
    \E i \in 1..(Len(hay) - Len(needle) + 1) :
        /\ hay[i] = needle[1]
        /\ SubSeq(hay, i, i + Len(needle) - 1) = needle

LowerLetters == <<"a", "b", "c", "d", "e", "f", "g", "h", "i", "j", "k", "l", "m", "n", "o", "p", "q", "r", "s", "t", "u", "v", "w", "x", "y", "z">> (* "abcdefghijklmnopqrstuvwxyz" *)
UpperLetters == <<"A", "B", "C", "D", "E", "F", "G", "H", "I", "J", "K", "L", "M", "N", "O", "P", "Q", "R", "S", "T", "U", "V", "W", "X", "Y", "Z">> (* "ABCDEFGHIJKLMNOPQRSTUVWXYZ" *)

UpperChar(c) ==
    IF \E i \in 1..Len(LowerLetters) : LowerLetters[i] = c
    THEN UpperLetters[CHOOSE i \in 1..Len(LowerLetters) : LowerLetters[i] = c]
    ELSE c

\* str.upper()
Upper(s) == [i \in 1..Len(s) |-> UpperChar(s[i])]

AsciiDigits == <<"0", "1", "2", "3", "4", "5", "6", "7", "8", "9">> (* "0123456789" *)

\* characters int() reads as a decimal digit
IsDecimalChar(c) == c = "ar3" \/ \E i \in 1..10 : AsciiDigits[i] = c

DecimalValue(c) ==
    IF c = "ar3" THEN 3 ELSE (CHOOSE i \in 1..10 : AsciiDigits[i] = c) - 1

\* characters with the Unicode digit property: the decimal digits and more
IsDigitChar(c) == IsDecimalChar(c) \/ c = "sup2"

\* str.isdigit(): non-empty and every character a digit
IsDigit(s) == s # <<>> /\ \A i \in 1..Len(s) : IsDigitChar(s[i])

\* the digits of an int() literal: decimal digits, single underscores between them
IntDigitsOk(d) ==
    /\ d # <<>>
    /\ IsDecimalChar(d[1])
    /\ IsDecimalChar(d[Len(d)])
    /\ \A i \in 1..Len(d) : IsDecimalChar(d[i]) \/ d[i] = "_"
    /\ \A i \in 1..(Len(d) - 1) : ~(d[i] = "_" /\ d[i + 1] = "_")

IntSigned(s) == s # <<>> /\ s[1] \in {"+", "-"}

IntBody(s) == IF IntSigned(s) THEN Tail(s) ELSE s

\* int(s) does not raise ValueError
IntOk(s) == IntDigitsOk(IntBody(Strip(s)))

RECURSIVE DigitsValue(_, _)
DigitsValue(d, acc) ==
    IF d = <<>> THEN acc
    ELSE IF Head(d) = "_" THEN DigitsValue(Tail(d), acc)
    ELSE DigitsValue(Tail(d), 10 * acc + DecimalValue(Head(d)))

\* int(s), for s with IntOk(s)
IntValue(s) ==
    LET t == Strip(s)
        v == DigitsValue(IntBody(t), 0)
    IN  IF IntSigned(t) /\ t[1] = "-" THEN 0 - v ELSE v

RECURSIVE DecNat(_)
DecNat(n) ==
    IF n < 10 THEN <<AsciiDigits[n + 1]>>
    ELSE DecNat(n \div 10) \o <<AsciiDigits[(n % 10) + 1]>>

\* str(n) of an int, as an f-string renders it
Dec(n) == IF n < 0 THEN <<"-">> \o DecNat(0 - n) ELSE DecNat(n)

RECURSIVE PadZeros(_, _)
PadZeros(s, width) == IF Len(s) >= width THEN s ELSE PadZeros(<<"0">> \o s, width)

\* a rate is a fraction [n, d] with d > 0
Rate(n, d) == [n |-> n, d |-> d]

Million == 1000000

\* f"{x:.6f}" of the rate x (rounded to the nearest millionth)
Fixed6(x) ==
    LET scaled == (2 * x.n * Million + x.d) \div (2 * x.d)
    IN  DecNat(scaled \div Million) \o <<".">> \o PadZeros(DecNat(scaled % Million), 6)

-----------------------------------------------------------------------------
(* calculate_quality_metrics                                                *)

NoCounts == [missing_calls |-> 0, heterozygous |-> 0,
             transitions |-> 0, transversions |-> 0]

\* lines 33-36 with the "elif" taken as a second "if": a heterozygous call is
\* counted for a marker with a missing allele too
CountMarkerMissingCounted(c, marker) ==
    LET allele1 == marker.allele1
        allele2 == marker.allele2
    IN  [c EXCEPT
            !.missing_calls = @ + (IF allele1 = 0 \/ allele2 = 0 THEN 1 ELSE 0),
            !.heterozygous = @ + (IF allele1 # allele2 THEN 1 ELSE 0)]

\* one iteration of the loop over the markers
CountMarker(c, marker) ==
    LET allele1 == marker.allele1
        allele2 == marker.allele2
        a1 == IF allele1 <= allele2 THEN allele1 ELSE allele2
        a2 == IF allele1 <= allele2 THEN allele2 ELSE allele1
    IN  IF allele1 = 0 \/ allele2 = 0
        THEN [c EXCEPT !.missing_calls = @ + 1]
        ELSE IF allele1 \in {1, 2, 3, 4} /\ allele2 \in {1, 2, 3, 4}
        THEN IF allele1 # allele2
             THEN IF (a1 = 1 /\ a2 = 3) \/ (a1 = 2 /\ a2 = 4)
                  THEN [c EXCEPT !.heterozygous = @ + 1, !.transitions = @ + 1]
                  ELSE IF <<a1, a2>> \in {<<1, 2>>, <<1, 4>>, <<2, 3>>, <<3, 4>>}
                  THEN [c EXCEPT !.heterozygous = @ + 1, !.transversions = @ + 1]
                  ELSE [c EXCEPT !.heterozygous = @ + 1]
             ELSE c
        ELSE c

\* the three rates computed from the counters after the loop
QualityRates(total_markers, c) ==
    LET valid_calls == total_markers - c.missing_calls
    IN  [call_rate |-> IF total_markers > 0
                       THEN Rate(valid_calls, total_markers) ELSE Rate(0, 1),
         heterozygosity_rate |-> IF valid_calls > 0
                                 THEN Rate(c.heterozygous, valid_calls) ELSE Rate(0, 1),
         ti_tv_ratio |-> IF c.transversions > 0
                         THEN Rate(c.transitions, c.transversions) ELSE Rate(0, 1)]

RECURSIVE CountMarkers(_, _)
CountMarkers(ms, c) ==
    IF ms = <<>> THEN c ELSE CountMarkers(Tail(ms), CountMarker(c, Head(ms)))

calculate_quality_metrics(ms) ==
    IF ms = <<>>
    THEN [call_rate |-> Rate(0, 1), heterozygosity_rate |-> Rate(0, 1),
          ti_tv_ratio |-> Rate(0, 1)]
    ELSE QualityRates(Len(ms), CountMarkers(ms, NoCounts))

-----------------------------------------------------------------------------
(* generate_challenge_hash                                                  *)

\* the f-string of line 64: the five fields of one marker, no separators
MarkerText(marker) ==
    marker.rsid \o Dec(marker.chromosome) \o Dec(marker.position)
        \o Dec(marker.allele1) \o Dec(marker.allele2)

RECURSIVE DataString(_)
DataString(data) ==
    IF data = <<>> THEN <<>> ELSE MarkerText(Head(data)) \o DataString(Tail(data))

\* hexdigest(): 64 hexadecimal characters
Sha256Hex(buffer) == <<"sha256hex">>

-----------------------------------------------------------------------------
(* encode_allele, encode_chromosome, validate_genetic_marker                *)

encode_allele(allele) ==
    LET u == Upper(allele)
    IN  IF u = <<"A">> THEN 1
        ELSE IF u = <<"T">> THEN 2
        ELSE IF u = <<"G">> THEN 3
        ELSE IF u = <<"C">> THEN 4
        ELSE 0

\* encode_chromosome raises ValueError: isdigit() holds and int() rejects the text
ChromosomeRaises(chromosome) == IsDigit(chromosome) /\ ~IntOk(chromosome)

\* the value encode_chromosome returns when it does not raise
encode_chromosome(chromosome) ==
    IF IsDigit(chromosome)
    THEN LET chr_num == IntValue(chromosome)
         IN  IF 1 <= chr_num /\ chr_num <= 22 THEN chr_num ELSE 0
    ELSE IF Upper(chromosome) = <<"X">> THEN 23
    ELSE IF Upper(chromosome) = <<"Y">> THEN 24
    ELSE IF Upper(chromosome) \in {<<"M", "T">>, <<"M">>} THEN 25
    ELSE 0

\* line 109
RsidOk(rsid) == StartsWith(rsid, <<"r", "s">>) \/ StartsWith(rsid, <<"i">>)

\* lines 117-122 with "pos <= 0" written "pos < 0"
PositionOkZeroAllowed(position) == IntOk(position) /\ IntValue(position) >= 0

\* lines 117-122: int(position) parses and is positive
PositionOk(position) == IntOk(position) /\ IntValue(position) > 0

valid_alleles == {<<"A">>, <<"T">>, <<"G">>, <<"C">>, <<"0">>, <<"-">>, <<"D">>, <<"I">>}

\* "True", "False", or "ValueError" when the call raises
validate_genetic_marker(fields) ==
    IF Len(fields) # 5 THEN "False"
    ELSE IF ~RsidOk(fields[1]) THEN "False"
    ELSE IF ChromosomeRaises(fields[2]) THEN "ValueError"
    ELSE IF encode_chromosome(fields[2]) = 0 THEN "False"
    ELSE IF ~PositionOk(fields[3]) THEN "False"
    ELSE IF fields[4] \notin valid_alleles \/ fields[5] \notin valid_alleles THEN "False"
    ELSE "True"

\* the dict appended at lines 189-198
MakeMarker(fields) ==
    [rsid |-> fields[1],
     chromosome |-> encode_chromosome(fields[2]),
     position |-> IntValue(fields[3]),
     allele1 |-> encode_allele(fields[4]),
     allele2 |-> encode_allele(fields[5]),
     raw_chromosome |-> fields[2],
     raw_allele1 |-> fields[4],
     raw_allele2 |-> fields[5]]

\* line 178: the stripped fields of a stripped line
Fields(line) == LET parts == Split(Strip(line), "\t")
                IN  [i \in 1..Len(parts) |-> Strip(parts[i])]

expected_headers == {<<"r", "s", "i", "d">> (* "rsid" *), <<"c", "h", "r", "o", "m", "o", "s", "o", "m", "e">> (* "chromosome" *), <<"p", "o", "s", "i", "t", "i", "o", "n">> (* "position" *), <<"a", "l", "l", "e", "l", "e", "1">> (* "allele1" *), <<"a", "l", "l", "e", "l", "e", "2">> (* "allele2" *)}

\* line 160
HeadersOk(header_line) ==
    LET headers == Fields(header_line)
    IN  \A h \in expected_headers : \E i \in 1..Len(headers) : headers[i] = h

\* line 147
IsComment(line) == StartsWith(Strip(line), <<"#">>)

\* lines 145-149: the index (from 0) of the first line that is no comment, 0 when
\* there is none
DataStart(ls) ==
    IF \E i \in 1..Len(ls) : ~IsComment(ls[i])
    THEN (CHOOSE i \in 1..Len(ls) :
              ~IsComment(ls[i]) /\ \A j \in 1..(i - 1) : IsComment(ls[j])) - 1
    ELSE 0

-----------------------------------------------------------------------------
(* write_toml_file and validate_toml_output                                 *)

\* lines 239-249: the comment block and the four summary keys
TomlHeader(challenge_hash, rates) ==
    <<"#", " ", "G", "e", "n", "e", "t", "i", "c", " ", "D", "a", "t", "a", " ", "E", "n", "c", "o", "d", "i", "n", "g", ":", "\n">> (* "# Genetic Data Encoding:\n" *)
    \o <<"#", " ", "A", "l", "l", "e", "l", "e", "s", ":", " ", "A", "=", "1", ",", " ", "T", "=", "2", ",", " ", "G", "=", "3", ",", " ", "C", "=", "4", ",", " ", "M", "i", "s", "s", "i", "n", "g", "=", "0", "\n">> (* "# Alleles: A=1, T=2, G=3, C=4, Missing=0\n" *)
    \o <<"#", " ", "C", "h", "r", "o", "m", "o", "s", "o", "m", "e", "s", ":", " ", "1", "-", "2", "2", "=", "1", "-", "2", "2", ",", " ", "X", "=", "2", "3", ",", " ", "Y", "=", "2", "4", ",", " ", "M", "T", "=", "2", "5", "\n">> (* "# Chromosomes: 1-22=1-22, X=23, Y=24, MT=25\n" *)
    \o <<"\n">>
    \o <<"c", "h", "a", "l", "l", "e", "n", "g", "e", "_", "h", "a", "s", "h", " ", "=", " ", "\"">> (* "challenge_hash = \"" *) \o challenge_hash \o <<"\"", "\n">>
    \o <<"m", "i", "n", "_", "c", "a", "l", "l", "_", "r", "a", "t", "e", " ", "=", " ", "\"">> (* "min_call_rate = \"" *) \o Fixed6(rates.call_rate) \o <<"\"", "\n">>
    \o <<"m", "i", "n", "_", "h", "e", "t", "e", "r", "o", "z", "y", "g", "o", "s", "i", "t", "y", "_", "r", "a", "t", "e", " ", "=", " ", "\"">> (* "min_heterozygosity_rate = \"" *) \o Fixed6(rates.heterozygosity_rate) \o <<"\"", "\n">>
    \o <<"t", "i", "_", "t", "v", "_", "r", "a", "t", "i", "o", " ", "=", " ", "\"">> (* "ti_tv_ratio = \"" *) \o Fixed6(rates.ti_tv_ratio) \o <<"\"", "\n">>
    \o <<"\n">>

\* lines 253-262: one [[dna]] record
TomlMarker(marker) ==
    <<"[", "[", "d", "n", "a", "]", "]", "\n">> (* "[[dna]]\n" *)
    \o <<"a", "l", "l", "e", "l", "e", "1", " ", "=", " ">> (* "allele1 = " *) \o Dec(marker.allele1) \o <<"\n">>
    \o <<"a", "l", "l", "e", "l", "e", "2", " ", "=", " ">> (* "allele2 = " *) \o Dec(marker.allele2) \o <<"\n">>
    \o <<"c", "h", "r", "o", "m", "o", "s", "o", "m", "e", " ", "=", " ">> (* "chromosome = " *) \o Dec(marker.chromosome) \o <<"\n">>
    \o <<"p", "o", "s", "i", "t", "i", "o", "n", " ", "=", " ">> (* "position = " *) \o Dec(marker.position) \o <<"\n">>
    \o <<"r", "s", "i", "d", " ", "=", " ", "\"">> (* "rsid = \"" *) \o marker.rsid \o <<"\"", "\n">>
    \o <<"#", " ", "O", "r", "i", "g", "i", "n", "a", "l", ":", " ">> (* "# Original: " *) \o marker.raw_allele1 \o <<"/">> \o marker.raw_allele2
    \o <<" ", "o", "n", " ", "c", "h", "r">> (* " on chr" *) \o marker.raw_chromosome \o <<" ", "a", "t", " ">> (* " at " *) \o Dec(marker.position) \o <<"\n">>
    \o <<"\n">>

RECURSIVE TomlMarkers(_)
TomlMarkers(ms) ==
    IF ms = <<>> THEN <<>> ELSE TomlMarker(Head(ms)) \o TomlMarkers(Tail(ms))

\* line 221 without the test: an empty list is written like any other
WriteRefusesNever(ms) == FALSE

\* line 221: "if not markers"
WriteRefuses(ms) == ms = <<>>

required_fields == {<<"c", "h", "a", "l", "l", "e", "n", "g", "e", "_", "h", "a", "s", "h">> (* "challenge_hash" *), <<"m", "i", "n", "_", "c", "a", "l", "l", "_", "r", "a", "t", "e">> (* "min_call_rate" *),
                    <<"m", "i", "n", "_", "h", "e", "t", "e", "r", "o", "z", "y", "g", "o", "s", "i", "t", "y", "_", "r", "a", "t", "e">> (* "min_heterozygosity_rate" *), <<"t", "i", "_", "t", "v", "_", "r", "a", "t", "i", "o">> (* "ti_tv_ratio" *)}

\* line 297
has_encoded_alleles(text) ==
    \/ Contains(text, <<"a", "l", "l", "e", "l", "e", "1", " ", "=", " ", "1">> (* "allele1 = 1" *))
    \/ Contains(text, <<"a", "l", "l", "e", "l", "e", "1", " ", "=", " ", "2">> (* "allele1 = 2" *))
    \/ Contains(text, <<"a", "l", "l", "e", "l", "e", "1", " ", "=", " ", "3">> (* "allele1 = 3" *))
    \/ Contains(text, <<"a", "l", "l", "e", "l", "e", "1", " ", "=", " ", "4">> (* "allele1 = 4" *))

\* line 298
has_encoded_chromosomes(text) ==
    \E i \in 1..25 : Contains(text, <<"c", "h", "r", "o", "m", "o", "s", "o", "m", "e", " ", "=", " ">> (* "chromosome = " *) \o Dec(i))

\* line 309: the value validate_toml_output returns
validate_toml_output(text) ==
    /\ Contains(text, <<"[", "[", "d", "n", "a", "]", "]">> (* "[[dna]]" *))
    /\ \A field \in required_fields : Contains(text, field)
    /\ has_encoded_alleles(text)
    /\ has_encoded_chromosomes(text)

-----------------------------------------------------------------------------
(* The inputs                                                               *)

MaxRows == 3
MaxCap == 2
MaxMetricMarkers == 2
MaxHashMarkers == 2

CommentLine == <<"#", " ", "2", "3", "a", "n", "d", "M", "e", "\n">> (* "# 23andMe\n" *)
CommentHeader == <<"#", "\t", "r", "s", "i", "d", "\t", "c", "h", "r", "o", "m", "o", "s", "o", "m", "e", "\t", "p", "o", "s", "i", "t", "i", "o", "n", "\t", "a", "l", "l", "e", "l", "e", "1", "\t", "a", "l", "l", "e", "l", "e", "2", "\n">> (* "#\trsid\tchromosome\tposition\tallele1\tallele2\n" *)
GoodHeader == <<"r", "s", "i", "d", "\t", "c", "h", "r", "o", "m", "o", "s", "o", "m", "e", "\t", "p", "o", "s", "i", "t", "i", "o", "n", "\t", "a", "l", "l", "e", "l", "e", "1", "\t", "a", "l", "l", "e", "l", "e", "2", "\n">> (* "rsid\tchromosome\tposition\tallele1\tallele2\n" *)
WideHeader == <<"r", "s", "i", "d", "\t", "c", "h", "r", "o", "m", "o", "s", "o", "m", "e", "\t", "p", "o", "s", "i", "t", "i", "o", "n", "\t", "a", "l", "l", "e", "l", "e", "1", "\t", "a", "l", "l", "e", "l", "e", "2", "\t", "g", "e", "n", "o", "t", "y", "p", "e", "\n">> (* "rsid\tchromosome\tposition\tallele1\tallele2\tgenotype\n" *)
ShortHeader == <<"r", "s", "i", "d", "\t", "c", "h", "r", "o", "m", "o", "s", "o", "m", "e", "\t", "p", "o", "s", "i", "t", "i", "o", "n", "\t", "g", "e", "n", "o", "t", "y", "p", "e", "\n">> (* "rsid\tchromosome\tposition\tgenotype\n" *)

RowAG == <<"r", "s", "1", "\t", "1", "\t", "1", "0", "0", "\t", "A", "\t", "G", "\n">> (* "rs1\t1\t100\tA\tG\n" *)
RowMito == <<"i", "2", "\t", "m", "t", "\t", "2", "3", "\t", "C", "\t", "T", "\n">> (* "i2\tmt\t23\tC\tT\n" *)
RowMissing == <<"r", "s", "3", "\t", "X", "\t", "7", "\t", "-", "\t", "D", "\n">> (* "rs3\tX\t7\t-\tD\n" *)
RowLower == <<"r", "s", "4", "\t", "1", "\t", "1", "0", "0", "\t", "a", "\t", "g", "\n">> (* "rs4\t1\t100\ta\tg\n" *)
RowWide == <<"r", "s", "5", "\t", "1", "\t", "1", "0", "0", "\t", "A", "\t", "G", "\t", "A", "G", "\n">> (* "rs5\t1\t100\tA\tG\tAG\n" *)
RowSuperscript == <<"r", "s", "6", "\t", "sup2", "\t", "1", "0", "0", "\t", "A", "\t", "G", "\n">>
RowZeroPos == <<"r", "s", "7", "\t", "1", "\t", "0", "\t", "A", "\t", "G", "\n">> (* "rs7\t1\t0\tA\tG\n" *)
RowBlank == <<" ", " ", "\n">>
RowBadId == <<"R", "S", "9", "\t", "1", "\t", "5", "\t", "A", "\t", "G", "\n">> (* "RS9\t1\t5\tA\tG\n" *)
RowChr23 == <<"r", "s", "1", "0", "\t", "2", "3", "\t", "5", "\t", "A", "\t", "G", "\n">> (* "rs10\t23\t5\tA\tG\n" *)
RowArabic == <<"r", "s", "1", "1", "\t", "ar3", "\t", "1", "_", "0", "\t", "I", "\t", "A", "\n">>

DataRows == {RowAG, RowMito, RowMissing, RowLower, RowWide, RowSuperscript,
             RowZeroPos, RowBlank, RowBadId, RowChr23, RowArabic}

\* the lines up to and including the header line
Preambles == {<<GoodHeader>>, <<CommentLine, WideHeader>>}

\* files the loader refuses, or that have no data region to speak of
OddFiles == {<<>>, <<CommentLine>>, <<CommentLine, CommentLine>>,
             <<CommentHeader>>, <<CommentHeader, RowAG>>,
             <<ShortHeader, RowAG>>, <<CommentLine, RowAG, GoodHeader>>}

SeqsUpTo(S, n) == UNION {[1..k -> S] : k \in 0..n}

InputFiles == OddFiles \cup {p \o d : p \in Preambles, d \in SeqsUpTo(DataRows, MaxRows)}

\* marker lists write_toml_file is called with directly
DirectMarkers == {<<>>, <<MakeMarker(Fields(RowAG))>>,
                  <<MakeMarker(Fields(RowMissing)), MakeMarker(Fields(RowMito))>>}

NoMetrics == [call_rate |-> Rate(0, 1), heterozygosity_rate |-> Rate(0, 1),
              ti_tv_ratio |-> Rate(0, 1)]

NoQm == [markers |-> <<>>, i |-> 0, counts |-> NoCounts, done |-> FALSE,
         rates |-> NoMetrics]

NoHs == [data |-> <<>>, variant |-> <<>>, kind |-> "none", i |-> 0,
         buffer |-> <<>>, vbuffer |-> <<>>, done |-> FALSE]

\* everything but the inputs and pc, as a process starts
Fresh ==
    /\ data_start = 0
    /\ row = 0
    /\ processed_count = 0
    /\ skipped_count = 0
    /\ outcomes = <<>>
    /\ error = ""
    /\ metrics = NoMetrics
    /\ metrics_calls = 0
    /\ hash_calls = 0
    /\ data_string = <<>>
    /\ out_opened = FALSE
    /\ content = <<>>
    /\ validate_ok = "none"
    /\ exit_code = -1

\* main() is run on an input file with a cap
InitMain ==
    /\ pc = "main"
    /\ input_exists \in BOOLEAN
    /\ lines \in (IF input_exists THEN InputFiles ELSE {<<>>})
    /\ max_markers \in (IF input_exists THEN 0..MaxCap ELSE {MaxCap})
    /\ markers = <<>>
    /\ qm = NoQm
    /\ hs = NoHs
    /\ Fresh

\* write_toml_file is called directly with a marker list
InitWrite ==
    /\ pc = "write_direct"
    /\ input_exists = FALSE
    /\ lines = <<>>
    /\ max_markers = MaxCap
    /\ markers \in DirectMarkers
    /\ qm = NoQm
    /\ hs = NoHs
    /\ Fresh

Init == InitMain \/ InitWrite

-----------------------------------------------------------------------------
(* main and parse_23andme_file                                              *)

parse_vars == <<data_start, row, markers, processed_count, skipped_count, outcomes>>
write_vars == <<metrics, metrics_calls, hash_calls, data_string, out_opened, content>>
input_vars == <<input_exists, lines, max_markers, qm, hs>>

\* lines 336-344: the existence probe, then the call of parse_23andme_file
MainStart ==
    /\ pc = "main"
    /\ IF input_exists
       THEN pc' = "read" /\ exit_code' = exit_code
       ELSE pc' = "exit" /\ exit_code' = 1
    /\ UNCHANGED <<input_vars, parse_vars, write_vars, error, validate_ok>>

\* lines 138-142
ParseRead ==
    /\ pc = "read"
    /\ IF lines = <<>>
       THEN pc' = "except" /\ error' = "File is empty"
       ELSE pc' = "skip_comments" /\ error' = error
    /\ UNCHANGED <<input_vars, parse_vars, write_vars, validate_ok, exit_code>>

\* lines 144-152
ParseSkipComments ==
    /\ pc = "skip_comments"
    /\ data_start' = DataStart(lines)
    /\ IF data_start' >= Len(lines)
       THEN pc' = "except" /\ error' = "No data found in file"
       ELSE pc' = "header" /\ error' = error
    /\ UNCHANGED <<input_vars, row, markers, processed_count, skipped_count,
                   outcomes, write_vars, validate_ok, exit_code>>

\* lines 154-167
ParseHeader ==
    /\ pc = "header"
    /\ IF HeadersOk(lines[data_start + 1])
       THEN pc' = "rows" /\ error' = error
       ELSE pc' = "except" /\ error' = "Invalid headers"
    /\ row' = data_start + 1
    /\ UNCHANGED <<input_vars, data_start, markers, processed_count, skipped_count,
                   outcomes, write_vars, validate_ok, exit_code>>

Outcome(result, n) == [line |-> row, result |-> result, nmarkers |-> n]

\* lines 169-204: one turn of the loop over the data lines
ParseRow ==
    /\ pc = "rows"
    /\ IF row >= Len(lines)
       THEN \* the lines are exhausted
            /\ pc' = "return"
            /\ UNCHANGED <<row, markers, processed_count, skipped_count, outcomes, error>>
       ELSE IF processed_count >= max_markers
       THEN \* line 170: break
            /\ pc' = "return"
            /\ outcomes' = Append(outcomes, Outcome("break", Len(markers)))
            /\ UNCHANGED <<row, markers, processed_count, skipped_count, error>>
       ELSE IF Strip(lines[row + 1]) = <<>>
       THEN \* line 175: an empty line
            /\ pc' = "rows"
            /\ row' = row + 1
            /\ outcomes' = Append(outcomes, Outcome("blank", Len(markers)))
            /\ UNCHANGED <<markers, processed_count, skipped_count, error>>
       ELSE LET fields == Fields(lines[row + 1])
                valid == validate_genetic_marker(fields)
            IN  IF valid = "ValueError"
                THEN \* line 87 raises, line 214 catches and raises again
                     /\ pc' = "except"
                     /\ error' = "invalid literal for int()"
                     /\ outcomes' = Append(outcomes, Outcome("raised", Len(markers)))
                     /\ UNCHANGED <<row, markers, processed_count, skipped_count>>
                ELSE IF valid = "False"
                THEN /\ pc' = "rows"
                     /\ row' = row + 1
                     /\ skipped_count' = skipped_count + 1
                     /\ outcomes' = Append(outcomes, Outcome("skipped", Len(markers)))
                     /\ UNCHANGED <<markers, processed_count, error>>
                ELSE /\ pc' = "rows"
                     /\ row' = row + 1
                     /\ markers' = Append(markers, MakeMarker(fields))
                     /\ processed_count' = processed_count + 1
                     /\ outcomes' = Append(outcomes, Outcome("appended", Len(markers) + 1))
                     /\ UNCHANGED <<skipped_count, error>>
    /\ UNCHANGED <<input_vars, data_start, write_vars, validate_ok, exit_code>>

\* lines 206-210
ParseReturn ==
    /\ pc = "return"
    /\ pc' = "check_empty"
    /\ UNCHANGED <<input_vars, parse_vars, write_vars, error, validate_ok, exit_code>>

\* lines 346-348
MainCheckEmpty ==
    /\ pc = "check_empty"
    /\ IF markers = <<>>
       THEN pc' = "exit" /\ exit_code' = 1
       ELSE pc' = "write" /\ exit_code' = exit_code
    /\ UNCHANGED <<input_vars, parse_vars, write_vars, error, validate_ok>>

\* lines 217-269, called by main (pc = "write") or directly (pc = "write_direct");
\* opened is whether open(output_filename, 'w') succeeds
WriteToml ==
    /\ pc \in {"write", "write_direct"}
    /\ IF WriteRefuses(markers)
       THEN /\ error' = "No markers to write"
            /\ pc' = IF pc = "write" THEN "except" ELSE "raised"
            /\ UNCHANGED write_vars
       ELSE \E opened \in BOOLEAN :
            /\ metrics' = calculate_quality_metrics(markers)
            /\ metrics_calls' = metrics_calls + 1
            /\ data_string' = DataString(markers)
            /\ hash_calls' = hash_calls + 1
            /\ out_opened' = opened
            /\ IF opened
               THEN /\ content' = TomlHeader(Sha256Hex(data_string'), metrics')
                                      \o TomlMarkers(markers)
                    /\ error' = error
                    /\ pc' = IF pc = "write" THEN "validate" ELSE "returned"
               ELSE /\ content' = content
                    /\ error' = "Error writing TOML file"
                    /\ pc' = IF pc = "write" THEN "except" ELSE "raised"
    /\ UNCHANGED <<input_vars, parse_vars, validate_ok, exit_code>>

\* lines 281-313, called at line 356
ValidateOutput ==
    /\ pc = "validate"
    /\ validate_ok' = IF validate_toml_output(content) THEN "True" ELSE "False"
    /\ pc' = "finish"
    /\ UNCHANGED <<input_vars, parse_vars, write_vars, error, exit_code>>

\* lines 356-366
MainFinish ==
    /\ pc = "finish"
    /\ exit_code' = IF validate_ok = "True" THEN 0 ELSE 1
    /\ pc' = "exit"
    /\ UNCHANGED <<input_vars, parse_vars, write_vars, error, validate_ok>>

\* lines 368-370
MainExcept ==
    /\ pc = "except"
    /\ exit_code' = 1
    /\ pc' = "exit"
    /\ UNCHANGED <<input_vars, parse_vars, write_vars, error, validate_ok>>

Next ==
    \/ MainStart
    \/ ParseRead
    \/ ParseSkipComments
    \/ ParseHeader
    \/ ParseRow
    \/ ParseReturn
    \/ MainCheckEmpty
    \/ WriteToml
    \/ ValidateOutput
    \/ MainFinish
    \/ MainExcept

Spec == Init /\ [][Next]_vars

-----------------------------------------------------------------------------
(* calculate_quality_metrics, run on its own, one loop turn at a time       *)

AlleleCodes == 0..4

MetricMarkers == [allele1 : AlleleCodes, allele2 : AlleleCodes]

InitMetrics ==
    /\ pc = "qm_start"
    /\ qm \in {[NoQm EXCEPT !.markers = ms] :
                   ms \in SeqsUpTo(MetricMarkers, MaxMetricMarkers)}
    /\ input_exists = FALSE
    /\ lines = <<>>
    /\ max_markers = MaxCap
    /\ markers = <<>>
    /\ hs = NoHs
    /\ Fresh

pipeline_vars == <<input_exists, lines, max_markers, parse_vars, write_vars,
                   error, validate_ok, exit_code>>

\* lines 17-24
QmStart ==
    /\ pc = "qm_start"
    /\ IF qm.markers = <<>>
       THEN pc' = "qm_done" /\ qm' = [qm EXCEPT !.done = TRUE]
       ELSE pc' = "qm_loop" /\ qm' = qm
    /\ UNCHANGED <<pipeline_vars, hs>>

\* lines 26-47: one marker
QmLoop ==
    /\ pc = "qm_loop"
    /\ qm.i < Len(qm.markers)
    /\ qm' = [qm EXCEPT !.i = @ + 1,
                        !.counts = CountMarker(@, qm.markers[qm.i + 1])]
    /\ pc' = pc
    /\ UNCHANGED <<pipeline_vars, hs>>

\* lines 49-55
QmReturn ==
    /\ pc = "qm_loop"
    /\ qm.i = Len(qm.markers)
    /\ qm' = [qm EXCEPT !.rates = QualityRates(Len(qm.markers), qm.counts),
                        !.done = TRUE]
    /\ pc' = "qm_done"
    /\ UNCHANGED <<pipeline_vars, hs>>

NextMetrics == QmStart \/ QmLoop \/ QmReturn

SpecMetrics == InitMetrics /\ [][NextMetrics]_vars

-----------------------------------------------------------------------------
(* generate_challenge_hash, run on a marker sequence and on a variant of it *)

HashIds == {<<"r", "s", "1">>, <<"r", "s", "1", "1">> (* "rs11" *), <<"i", "1">>}

\* the values each hashed field is drawn from: markers the validator accepts
HashDomain == [rsid |-> HashIds, chromosome |-> {1, 2}, position |-> {3, 23},
               allele1 |-> {1, 2}, allele2 |-> {1, 3}]

HashFields == DOMAIN HashDomain

HashMarkers == [rsid : HashDomain.rsid, chromosome : HashDomain.chromosome,
                position : HashDomain.position, allele1 : HashDomain.allele1,
                allele2 : HashDomain.allele2]

Swap(data, i, j) == [data EXCEPT ![i] = data[j], ![j] = data[i]]

\* data with two different markers at different positions swapped
SwapVariants(data) ==
    {Swap(data, p[1], p[2]) : p \in
        {q \in (1..Len(data)) \X (1..Len(data)) : q[1] < q[2] /\ data[q[1]] # data[q[2]]}}

\* data with field f of one marker changed
FieldVariants(data, f) ==
    UNION {{[data EXCEPT ![k] = [data[k] EXCEPT ![f] = x]] :
                x \in HashDomain[f] \ {data[k][f]}} : k \in 1..Len(data)}

InitHash ==
    /\ pc = "hash_loop"
    /\ \E data \in SeqsUpTo(HashMarkers, MaxHashMarkers) :
           \/ \E v \in SwapVariants(data) :
                  hs = [NoHs EXCEPT !.data = data, !.variant = v, !.kind = "swap"]
           \/ \E f \in HashFields : \E v \in FieldVariants(data, f) :
                  hs = [NoHs EXCEPT !.data = data, !.variant = v, !.kind = f]
    /\ input_exists = FALSE
    /\ lines = <<>>
    /\ max_markers = MaxCap
    /\ markers = <<>>
    /\ qm = NoQm
    /\ Fresh

\* lines 63-64: one marker appended to each buffer
HashLoop ==
    /\ pc = "hash_loop"
    /\ hs.i < Len(hs.data)
    /\ hs' = [hs EXCEPT !.i = @ + 1,
                        !.buffer = @ \o MarkerText(hs.data[hs.i + 1]),
                        !.vbuffer = @ \o MarkerText(hs.variant[hs.i + 1])]
    /\ pc' = pc
    /\ UNCHANGED <<pipeline_vars, qm>>

\* lines 67-68: the buffers are digested
HashDigest ==
    /\ pc = "hash_loop"
    /\ hs.i = Len(hs.data)
    /\ hs' = [hs EXCEPT !.done = TRUE]
    /\ pc' = "hash_done"
    /\ UNCHANGED <<pipeline_vars, qm>>

NextHash == HashLoop \/ HashDigest

SpecHash == InitHash /\ [][NextHash]_vars

-----------------------------------------------------------------------------
(* What the claims speak of                                                 *)

ParseErrors == {"File is empty", "No data found in file", "Invalid headers",
                "invalid literal for int()"}

IsBlank(line) == Strip(line) = <<>>

\* indices (from 1) of the lines after the header line
DataRegion == (DataStart(lines) + 2)..Len(lines)

\* what validation says of line k: "blank", "True", "False" or "ValueError"
RowVerdict(k) ==
    IF IsBlank(lines[k]) THEN "blank" ELSE validate_genetic_marker(Fields(lines[k]))

ValidRows == {k \in DataRegion : RowVerdict(k) = "True"}

\* the m-th valid row, for 1 <= m <= Cardinality(ValidRows)
NthValidRow(m) ==
    CHOOSE k \in ValidRows : Cardinality({j \in ValidRows : j <= k}) = m

RECURSIVE MarkersOfRows(_, _)
MarkersOfRows(from, to) ==
    IF from > to THEN <<>>
    ELSE IF RowVerdict(from) = "True"
    THEN <<MakeMarker(Fields(lines[from]))>> \o MarkersOfRows(from + 1, to)
    ELSE MarkersOfRows(from + 1, to)

\* a run of main on a file with a header line and more valid rows than the cap
CapCase ==
    /\ input_exists
    /\ lines # <<>>
    /\ HeadersOk(lines[DataStart(lines) + 1])
    /\ 1 <= max_markers
    /\ max_markers < Cardinality(ValidRows)

\* parse_23andme_file has returned the first max_markers valid rows and has not
\* looked at a row after the last of them
CapResult ==
    LET last == NthValidRow(max_markers)
    IN  /\ (pc = "except" => error \notin ParseErrors)
        /\ pc \in {"check_empty", "write", "validate", "finish", "exit", "except"} =>
            /\ markers = MarkersOfRows(DataStart(lines) + 2, last)
            /\ Len(markers) = max_markers
            /\ \A i \in 1..Len(outcomes) :
                   outcomes[i].result \in {"skipped", "appended", "raised"}
                       => outcomes[i].line + 1 <= last
            /\ skipped_count =
                   Cardinality({k \in DataRegion : k < last /\ RowVerdict(k) = "False"})

\* C1: with N valid rows in the data region and 1 <= max_markers < N,
\* parse_23andme_file returns exactly the first max_markers valid rows, and no row
\* after the last of them is validated or counted as skipped.
CapEnforcement == CapCase => CapResult

\* the same, for files in which no row before the cap makes validation raise
CapEnforcementUnlessRaise ==
    (CapCase /\ \A k \in DataRegion :
                    k < NthValidRow(max_markers) => RowVerdict(k) # "ValueError")
        => CapResult

\* C2: once write_toml_file has written the output, validate_toml_output returns
\* success and main exits with code 0.
RevalidationSucceeds ==
    /\ validate_ok # "False"
    /\ (pc = "exit" /\ validate_ok # "none") => exit_code = 0

\* C3: swapping two different markers, or changing one hashed field of one marker,
\* changes the buffer that is digested.
FingerprintSensitive == hs.done => hs.buffer # hs.vbuffer

\* changing one hashed field of one marker changes the buffer
FieldChangeSensitive == (hs.done /\ hs.kind # "swap") => hs.buffer # hs.vbuffer

\* the rows the loop validated, as (outcome, fields) pairs
Validated ==
    {i \in 1..Len(outcomes) : outcomes[i].result \in {"skipped", "appended", "raised"}}

OutcomeFields(i) == Fields(lines[outcomes[i].line + 1])

AllelesOkAnyCase(fields) ==
    Upper(fields[4]) \in valid_alleles /\ Upper(fields[5]) \in valid_alleles

\* C4: a five-field row with a valid id, chromosome and position is accepted
\* exactly when both alleles, compared without regard to case, are in the alphabet,
\* and is encoded by the case-insensitive table.
AlleleCaseInsensitive ==
    \A i \in Validated :
        LET fields == OutcomeFields(i)
        IN  (/\ Len(fields) = 5
             /\ RsidOk(fields[1])
             /\ ~ChromosomeRaises(fields[2])
             /\ encode_chromosome(fields[2]) # 0
             /\ PositionOk(fields[3]))
            => /\ (outcomes[i].result = "appended") <=> AllelesOkAnyCase(fields)
               /\ outcomes[i].result = "appended" =>
                      /\ markers[outcomes[i].nmarkers].allele1 = encode_allele(fields[4])
                      /\ markers[outcomes[i].nmarkers].allele2 = encode_allele(fields[5])

\* C5: under a header with extra columns, a row of more than five fields whose
\* first five are valid is accepted as the marker of those five.
ExtraColumnsTolerated ==
    \A i \in Validated :
        LET fields == OutcomeFields(i)
            five == SubSeq(fields, 1, 5)
        IN  (/\ Len(Fields(lines[data_start + 1])) > 5
             /\ Len(fields) > 5
             /\ validate_genetic_marker(five) = "True")
            => /\ outcomes[i].result = "appended"
               /\ markers[outcomes[i].nmarkers] = MakeMarker(five)

AllComments == lines # <<>> /\ \A k \in 1..Len(lines) : IsComment(lines[k])

\* C6: on a non-empty input of comment lines only, parse_23andme_file takes no
\* line as the header line and fails with "No data found in file".
AllCommentsNoData ==
    (input_exists /\ AllComments) =>
        \/ pc \in {"main", "read", "skip_comments"}
        \/ pc \in {"except", "exit"} /\ error = "No data found in file"

\* C7: with an empty marker list nothing is measured, hashed, opened or written,
\* and main exits with code 1.
EmptyNeverHashed ==
    markers = <<>> =>
        /\ metrics_calls = 0
        /\ hash_calls = 0
        /\ ~out_opened
        /\ content = <<>>
        /\ pc = "exit" => exit_code = 1
        /\ pc \notin {"validate", "finish", "returned"}

\* main ran on a file whose cap admits no marker, and exited
EmptyNeverHashedWitness ==
    /\ pc = "exit"
    /\ markers = <<>>
    /\ exit_code = 1
    /\ \E i \in 1..Len(outcomes) : outcomes[i].result = "break"

\* write_toml_file was called directly with an empty list, and raised
EmptyWriteRefused ==
    /\ pc = "raised"
    /\ markers = <<>>
    /\ error = "No markers to write"

\* C8: no row makes the encoders raise: a row with an unrecognised chromosome
\* label is skipped, and the run goes on.
EncodingTotal ==
    /\ \A i \in 1..Len(outcomes) : outcomes[i].result # "raised"
    /\ error # "invalid literal for int()"

InUnit(x) == x.d > 0 /\ 0 <= x.n /\ x.n <= x.d

\* C9: for a non-empty marker sequence, 0 <= heterozygous <= valid_calls <=
\* total_markers, call_rate and heterozygosity_rate are in [0, 1], ti_tv_ratio is
\* >= 0, heterozygosity_rate is 0 when valid_calls is 0 and ti_tv_ratio is 0 when
\* transversions is 0.
RateBounds ==
    (qm.done /\ qm.markers # <<>>) =>
        LET total_markers == Len(qm.markers)
            valid_calls == total_markers - qm.counts.missing_calls
        IN  /\ 0 <= qm.counts.heterozygous
            /\ qm.counts.heterozygous <= valid_calls
            /\ valid_calls <= total_markers
            /\ InUnit(qm.rates.call_rate)
            /\ qm.rates.call_rate.n * total_markers = valid_calls * qm.rates.call_rate.d
            /\ InUnit(qm.rates.heterozygosity_rate)
            /\ qm.rates.ti_tv_ratio.d > 0 /\ qm.rates.ti_tv_ratio.n >= 0
            /\ valid_calls = 0 => qm.rates.heterozygosity_rate.n = 0
            /\ qm.counts.transversions = 0 => qm.rates.ti_tv_ratio.n = 0

\* a sequence with a missing call and a heterozygous transversion was measured
RateBoundsWitness ==
    /\ qm.done
    /\ qm.counts.missing_calls = 1
    /\ qm.counts.heterozygous = 1
    /\ qm.counts.transversions = 1
    /\ qm.rates.heterozygosity_rate = Rate(1, 1)

WellFormed(marker) ==
    /\ RsidOk(marker.rsid)
    /\ marker.chromosome \in 1..25
    /\ marker.position > 0
    /\ marker.allele1 \in 0..4
    /\ marker.allele2 \in 0..4

\* the markers are those of the rows the loop appended, each after validation
AppendedAfterValidation ==
    /\ input_exists =>
           Len(markers) = Cardinality({i \in Validated : outcomes[i].result = "appended"})
    /\ \A i \in Validated :
           outcomes[i].result = "appended" =>
               /\ validate_genetic_marker(OutcomeFields(i)) = "True"
               /\ markers[outcomes[i].nmarkers] = MakeMarker(OutcomeFields(i))

MarkersKept ==
    /\ Len(markers') >= Len(markers)
    /\ \A i \in 1..Len(markers) : markers'[i] = markers[i]

\* C10: every marker in the list has an id beginning with rs or i, a chromosome
\* code in 1..25, a position above 0 and allele codes in 0..4; it was appended after
\* validate_genetic_marker returned true for its row; and no step changes or
\* removes a marker of the list.
MarkersWellFormed ==
    /\ [](\A i \in 1..Len(markers) : WellFormed(markers[i]))
    /\ []AppendedAfterValidation
    /\ [][MarkersKept]_vars

\* two markers are in the list and a row was skipped
MarkersWellFormedWitness ==
    /\ pc = "return"
    /\ Len(markers) = 2
    /\ skipped_count >= 1

====
